---- MODULE Spec2Model ----
(***************************************************************************)
(* ol-calendar: one run of main() (src/main.py) against a calendar service *)
(* and a target outline file, with the document model of src/orgnode.py    *)
(* and the calendar client of src/graph.py.                                *)
(*                                                                         *)
(* Python values are modelled as follows.                                  *)
(*   Optional[T]   a sequence of length 0 (None) or 1 (the value)          *)
(*   dict          a sequence of [key, val] records with distinct keys, in *)
(*                 insertion order (Python dicts keep insertion order)     *)
(*   str           a string; a multi-line text is a sequence of lines      *)
(*   datetime      an integer number of seconds                            *)
(*   object        a record; the field oid is the object's identity        *)
(***************************************************************************)
EXTENDS Integers, Sequences, FiniteSets, TLC

VARIABLES pc, env, error, token_cache, atexit_registered, calls, calendar,
          orgfile, disk, stdout

vars == <<pc, env, error, token_cache, atexit_registered, calls, calendar,
          orgfile, disk, stdout>>

\* Longest list of entries in the target outline file before the run.
MaxExisting == 2

\* Longest list of appointments the calendar service returns.
MaxFetched == 2

None == <<>>

Some(x) == <<x>>

\* Python truthiness of an Optional[str]: None and "" are falsy.
TruthyStr(opt) == opt # None /\ opt[1] # ""

\* Python truthiness of an Optional[list] or Optional[dict]: None and the empty
\* container are falsy.
Truthy(opt) == opt # None /\ opt[1] # <<>>

\* Python truthiness of an Optional[datetime]: every datetime is truthy.
TruthyTime(opt) == opt # None

---------------------------------------------------------------------------
\* Python dict, insertion ordered.

Has(d, k) == \E i \in DOMAIN d : d[i].key = k

Get(d, k) == d[CHOOSE i \in DOMAIN d : d[i].key = k].val

Put(d, k, v) ==
    IF Has(d, k)
    THEN [i \in DOMAIN d |-> IF d[i].key = k THEN [key |-> k, val |-> v] ELSE d[i]]
    ELSE Append(d, [key |-> k, val |-> v])

Pop(d, k) == SelectSeq(d, LAMBDA e : e.key # k)

Keys(d) == [i \in DOMAIN d |-> d[i].key]

Values(d) == [i \in DOMAIN d |-> d[i].val]

---------------------------------------------------------------------------
\* src/main.py

\* Sample texts that re.search(skip_pattern, text, re.IGNORECASE) matches.
skip_pattern == {"Canceled: A", "Team PTO day", "out of office", "OOO - back Monday"}

\* re.search over a text given as its lines.
re_search(lines) == \E i \in DOMAIN lines : lines[i] \in skip_pattern

build_entry(appt) ==
    [oid        |-> <<"cal", appt.id>>,
     heading    |-> appt.subject,
     todo       |-> Some(""),
     tags       |-> Some(<<"meeting", "work">>),
     properties |-> Some(<<[key |-> "MEETING_ID", val |-> ToString(appt.id)]>>),
     body       |-> Some(appt.bodyPreview),
     timestamp  |-> Some(appt.start),
     clocks     |-> None,
     level      |-> 1]

\* get_calendar_loop with entries.setdefault in place of the assignment: the
\* first appointment of a subject wins.
RECURSIVE get_calendar_loop_first_wins(_, _)
get_calendar_loop_first_wins(value, st) ==
    IF value = <<>> THEN st
    ELSE LET e == Head(value) IN
         get_calendar_loop_first_wins(
             Tail(value),
             IF re_search(<<e.subject>>) \/ re_search(e.bodyPreview)
             THEN [st EXCEPT !.stdout = Append(@, "Skipping")]
             ELSE IF Has(st.entries, e.subject) THEN st
             ELSE [st EXCEPT !.entries = Put(@, e.subject, build_entry(e))])

\* get_calendar, lines 46-58: the loop over calendar.get('value'). The state of
\* the loop is [entries, stdout].
RECURSIVE get_calendar_loop(_, _)
get_calendar_loop(value, st) ==
    IF value = <<>> THEN st
    ELSE LET e == Head(value) IN
         get_calendar_loop(
             Tail(value),
             IF re_search(<<e.subject>>) \/ re_search(e.bodyPreview)
             THEN [st EXCEPT !.stdout = Append(@, "Skipping")]
             ELSE [st EXCEPT !.entries = Put(@, e.subject, build_entry(e))])

change_todo_state(node, new_state) == [node EXCEPT !.todo = new_state]

update_timestamp(node, new_timestamp) == [node EXCEPT !.timestamp = new_timestamp]

\* update with <= in place of < at line 102.
update_not_later(old, new) ==
    LET o1 == [old EXCEPT !.heading = new.heading, !.body = new.body] IN
    IF ~TruthyTime(o1.timestamp) \/ ~TruthyTime(new.timestamp) THEN o1
    ELSE IF o1.timestamp[1] <= new.timestamp[1]
         THEN LET o2 == update_timestamp(o1, new.timestamp) IN
              IF o2.todo = Some("DONE") \/ o2.todo = Some("CANCELLED")
              THEN change_todo_state(o2, Some(""))
              ELSE o2
         ELSE o1

update(old, new) ==
    LET o1 == [old EXCEPT !.heading = new.heading, !.body = new.body] IN
    IF ~TruthyTime(o1.timestamp) \/ ~TruthyTime(new.timestamp) THEN o1
    ELSE IF o1.timestamp[1] < new.timestamp[1]
         THEN LET o2 == update_timestamp(o1, new.timestamp) IN
              IF o2.todo = Some("DONE") \/ o2.todo = Some("CANCELLED")
              THEN change_todo_state(o2, Some(""))
              ELSE o2
         ELSE o1

\* update, line 103: what update prints.
update_prints(old, new) ==
    IF TruthyTime(old.timestamp) /\ TruthyTime(new.timestamp)
       /\ old.timestamp[1] < new.timestamp[1]
    THEN <<"Updating">>
    ELSE <<>>

\* existing_entries_loop without lines 139-142: a repeated heading is skipped.
RECURSIVE existing_entries_loop_first_only(_, _)
existing_entries_loop_first_only(children, existing) ==
    IF children = <<>> THEN existing
    ELSE LET c == Head(children) IN
         existing_entries_loop_first_only(
             Tail(children),
             IF Has(existing, c.heading) THEN existing ELSE Put(existing, c.heading, c))

\* main, lines 136-144: the lookup of existing entries by heading.
RECURSIVE existing_entries_loop(_, _)
existing_entries_loop(children, existing) ==
    IF children = <<>> THEN existing
    ELSE LET c == Head(children) IN
         existing_entries_loop(
             Tail(children),
             IF Has(existing, c.heading)
             THEN LET e == Get(existing, c.heading) IN
                  IF Truthy(e.clocks)
                  THEN Put(existing, c.heading,
                           [e EXCEPT !.clocks =
                               Some(e.clocks[1] \o (IF Truthy(c.clocks) THEN c.clocks[1] ELSE <<>>))])
                  ELSE Put(existing, c.heading, [e EXCEPT !.clocks = c.clocks])
             ELSE Put(existing, c.heading, c))

\* calendar_loop with existing_entries[heading] in place of the pop of line 153.
RECURSIVE calendar_loop_no_pop(_, _, _)
calendar_loop_no_pop(headings, cal, st) ==
    IF headings = <<>> \/ st.error # "" THEN st
    ELSE LET heading == Head(headings) IN
         calendar_loop_no_pop(
             Tail(headings), cal,
             IF Get(cal, heading).timestamp = None
             THEN [st EXCEPT !.error = "KeyError"]
             ELSE IF Has(st.existing, heading)
                  THEN [st EXCEPT
                           !.children = Append(@, update(Get(st.existing, heading), Get(cal, heading))),
                           !.stdout = @ \o update_prints(Get(st.existing, heading), Get(cal, heading))]
                  ELSE [st EXCEPT !.children = Append(@, Get(cal, heading)),
                                  !.stdout = Append(@, "Adding new entry")])

\* main, lines 146-156: the loop over the fetched entries. The state of the loop
\* is [existing, children, error, stdout].
RECURSIVE calendar_loop(_, _, _)
calendar_loop(headings, cal, st) ==
    IF headings = <<>> \/ st.error # "" THEN st
    ELSE LET heading == Head(headings) IN
         calendar_loop(
             Tail(headings), cal,
             IF Get(cal, heading).timestamp = None
             THEN [st EXCEPT !.error = "KeyError"]  \* calendar[id]: id is the builtin
             ELSE IF Has(st.existing, heading)
                  THEN [st EXCEPT
                           !.children = Append(@, update(Get(st.existing, heading), Get(cal, heading))),
                           !.stdout = @ \o update_prints(Get(st.existing, heading), Get(cal, heading)),
                           !.existing = Pop(@, heading)]
                  ELSE [st EXCEPT !.children = Append(@, Get(cal, heading)),
                                  !.stdout = Append(@, "Adding new entry")])

\* stale_removed without the pop of line 163.
stale_removed_nothing(existing) == existing

\* main, lines 159-167: stale entries are dropped, the others come first.
stale_removed(existing) == SelectSeq(existing, LAMBDA e : TruthyStr(e.val.todo))

\* main, line 162: one line for every entry dropped.
stale_prints(existing) ==
    [i \in 1..(Len(existing) - Len(stale_removed(existing))) |-> "Removing cancelled/stale event"]

\* main, lines 136-167: [children, error, stdout] from the parsed children and
\* the fetched dict.
merge(children, cal) ==
    LET st == calendar_loop(Keys(cal), cal,
                  [existing |-> existing_entries_loop(children, <<>>),
                   children |-> <<>>,
                   error    |-> "",
                   stdout   |-> <<>>])
    IN IF st.error = ""
       THEN [children |-> Values(stale_removed(st.existing)) \o st.children,
             error    |-> "",
             stdout   |-> st.stdout \o stale_prints(st.existing)]
       ELSE [children |-> st.children, error |-> st.error, stdout |-> st.stdout]

---------------------------------------------------------------------------
\* src/orgnode.py: the outline text.
\*
\* A Python string of outline text is a sequence of tokens: the newline token
\* NL and fragments, a fragment being the text one element of to_org_string's
\* list `lines` stands for. A physical line of the file is the sequence of
\* fragments between two newlines.

SecondsPerMinute == 60

\* OrgClock.__init__, src/orgnode.py lines 13-25: duration is derived.
OrgClock(start, end) ==
    [start_time |-> start,
     end_time   |-> end,
     duration   |-> IF end = None THEN None ELSE Some(end[1] - start)]

MinutesPerHour == 60

NL == [k |-> "newline"]

\* strftime with %H:%M as its finest field: the seconds are dropped.
strftime_minutes(t) == t \div SecondsPerMinute

\* strptime of a text whose finest field is the minute, localized.
strptime_minutes(m) == m * SecondsPerMinute

\* "\n".join(lines), each element of lines being a sequence of tokens.
RECURSIVE join(_)
join(lines) ==
    IF lines = <<>> THEN <<>>
    ELSE IF Len(lines) = 1 THEN lines[1]
    ELSE lines[1] \o <<NL>> \o join(Tail(lines))

\* OrgClock._format_duration, lines 48-55.
_format_duration(duration) ==
    LET total_minutes == duration \div SecondsPerMinute IN
    <<total_minutes \div MinutesPerHour, total_minutes % MinutesPerHour>>

\* OrgClock.to_org_string, lines 38-46: "CLOCK: [start]--[end] => H:MM".
clock_to_org_string(clock) ==
    [k        |-> "clock",
     start    |-> strftime_minutes(clock.start_time),
     end      |-> IF clock.end_time = None THEN None
                  ELSE Some(strftime_minutes(clock.end_time[1])),
     duration |-> IF clock.duration # None /\ clock.duration[1] # 0
                  THEN Some(_format_duration(clock.duration[1]))
                  ELSE None]

\* str.upper on the property keys in use.
upper(key) == IF key = "location" THEN "LOCATION" ELSE key

\* ' ' * level, line 127.
RECURSIVE spaces(_)
spaces(level) == IF level = 0 THEN "" ELSE " " \o spaces(level - 1)

\* Whether a body line matches timestamp_pattern of line 125.
is_timestamp_line(line) == line = "<timestamp>"

\* OrgNode.to_org_string, lines 94-131: the list `lines`.
to_org_lines(node) ==
    (IF node.heading # ""
     THEN <<<<[k       |-> "heading",
              level   |-> node.level,
              todo    |-> IF TruthyStr(node.todo) THEN node.todo ELSE None,
              heading |-> node.heading,
              tags    |-> IF Truthy(node.tags) THEN node.tags ELSE None]>>>>
          \o (IF TruthyTime(node.timestamp)
              THEN <<<<[k |-> "timestamp", minutes |-> strftime_minutes(node.timestamp[1])]>>>>
              ELSE <<>>)
          \o (IF Truthy(node.clocks)
              THEN <<<<[k |-> "text", text |-> ":LOGBOOK:"]>>>>
                   \o [i \in DOMAIN node.clocks[1] |-> <<clock_to_org_string(node.clocks[1][i])>>]
                   \o <<<<[k |-> "text", text |-> ":END:"]>>>>
              ELSE <<>>)
     ELSE <<>>)
    \o (IF Truthy(node.properties)
        THEN <<<<[k |-> "text", text |-> ":PROPERTIES:"]>>>>
             \o [i \in DOMAIN node.properties[1] |->
                    <<[k |-> "property", key |-> upper(node.properties[1][i].key),
                       val |-> node.properties[1][i].val]>>]
             \o <<<<[k |-> "text", text |-> ":END:"]>>>>
        ELSE <<>>)
    \o (IF Truthy(node.body)
        THEN LET filtered_lines == SelectSeq(node.body[1], LAMBDA l : ~is_timestamp_line(l)) IN
             IF filtered_lines # <<>>
             THEN <<join([i \in DOMAIN filtered_lines |->
                             <<[k    |-> "body",
                                text |-> spaces(node.level) \o filtered_lines[i]]>>]) \o <<NL>>>>
             ELSE <<>>
        ELSE <<>>)

\* OrgNode.to_org_string, line 133.
to_org_string(node) == join(to_org_lines(node))

\* OrgFile.to_file, lines 185-189: the strings are written one after the other.
RECURSIVE write_children(_)
write_children(children) ==
    IF children = <<>> THEN <<>>
    ELSE to_org_string(Head(children)) \o write_children(Tail(children))

to_file(file) == to_org_string(file.root) \o write_children(file.children)

\* The physical lines of a text (str.splitlines).
RECURSIVE split_lines(_, _)
split_lines(tokens, line) ==
    IF tokens = <<>> THEN (IF line = <<>> THEN <<>> ELSE <<line>>)
    ELSE IF Head(tokens) = NL THEN <<line>> \o split_lines(Tail(tokens), <<>>)
    ELSE split_lines(Tail(tokens), Append(line, Head(tokens)))

\* orgparse: a line that starts with stars and a space opens a node.
is_heading_line(line) == line # <<>> /\ line[1].k = "heading" /\ line[1].level >= 1

\* orgparse: the lines of the file cut into the root's lines and one chunk for
\* every heading line.
RECURSIVE chunks(_, _)
chunks(lines, acc) ==
    IF lines = <<>> THEN acc
    ELSE IF is_heading_line(Head(lines))
         THEN chunks(Tail(lines), Append(acc, <<Head(lines)>>))
         ELSE chunks(Tail(lines), [acc EXCEPT ![Len(acc)] = Append(@, Head(lines))])

RECURSIVE stars(_)
stars(level) == IF level = 0 THEN "" ELSE "*" \o stars(level - 1)

RECURSIVE join_tags(_)
join_tags(tags) ==
    IF Len(tags) = 1 THEN tags[1] ELSE tags[1] \o ":" \o join_tags(Tail(tags))

tags_text(tags) == IF tags = None THEN "" ELSE "  :" \o join_tags(tags[1]) \o ":"

\* The characters of a fragment, as far as the parse keeps them as text.
fragment_text(f, with_tags) ==
    CASE f.k = "heading" ->
             stars(f.level) \o " " \o (IF f.todo = None THEN "" ELSE f.todo[1] \o " ")
             \o f.heading \o (IF with_tags THEN tags_text(f.tags) ELSE "")
      [] f.k = "timestamp" -> "<timestamp>"
      [] f.k = "clock"     -> "CLOCK:"
      [] f.k = "property"  -> ":" \o f.key \o ":"
      [] OTHER             -> f.text

RECURSIVE line_text(_)
line_text(line) ==
    IF line = <<>> THEN "" ELSE fragment_text(Head(line), TRUE) \o line_text(Tail(line))

\* orgparse on a heading line: the text after the stars and the keyword, without
\* the tag list that ends the line.
heading_of(line) ==
    IF Len(line) = 1 THEN line[1].heading
    ELSE line[1].heading \o tags_text(line[1].tags)
         \o line_text(SubSeq(line, 2, Len(line) - 1))
         \o fragment_text(line[Len(line)], FALSE)

\* orgparse: the fragments of the lines, in order.
RECURSIVE fragments(_)
fragments(lines) == IF lines = <<>> THEN <<>> ELSE Head(lines) \o fragments(Tail(lines))

has_text(line, text) == \E i \in DOMAIN line : line[i].k = "text" /\ line[i].text = text

\* orgparse _iparse_properties: the first drawer. The state of the scan is
\* [in_drawer, done, properties, rest].
RECURSIVE iparse_properties(_, _)
iparse_properties(lines, st) ==
    IF lines = <<>> THEN st
    ELSE LET line == Head(lines) IN
         iparse_properties(
             Tail(lines),
             IF st.done THEN [st EXCEPT !.rest = Append(@, line)]
             ELSE IF st.in_drawer
                  THEN IF has_text(line, ":END:") THEN [st EXCEPT !.done = TRUE]
                       ELSE IF line[1].k = "property"
                            THEN [st EXCEPT !.properties = Put(@, line[1].key, line[1].val)]
                            ELSE st
                  ELSE IF has_text(line, ":PROPERTIES:") THEN [st EXCEPT !.in_drawer = TRUE]
                       ELSE [st EXCEPT !.rest = Append(@, line)])

\* orgparse on the lines below a heading line (or the root's lines): the clock
\* lines and the first property drawer are taken out, what is left is the body.
parse_lines(lines) ==
    LET is_clock(line) == line[1].k = "clock" /\ line[1].end # None /\ line[1].duration # None
        clocks == SelectSeq(lines, is_clock)
        scan   == iparse_properties(
                      SelectSeq(lines, LAMBDA l : ~is_clock(l)),
                      [in_drawer |-> FALSE, done |-> FALSE, properties |-> <<>>, rest |-> <<>>])
    IN [clocks     |-> [i \in DOMAIN clocks |-> clocks[i][1]],
        properties |-> scan.properties,
        timestamps |-> SelectSeq(fragments(lines), LAMBDA f : f.k = "timestamp"),
        body       |-> [i \in DOMAIN scan.rest |-> line_text(scan.rest[i])]]

\* OrgFile.from_file, lines 146-172, on the i-th chunk. orgparse knows the
\* keywords TODO and DONE; any other stays in the heading.
parse_node(i, chunk) ==
    LET h       == chunk[1][1]
        last    == chunk[1][Len(chunk[1])]
        p       == parse_lines(Tail(chunk))
        known   == h.todo \in {Some("TODO"), Some("DONE")}
        cancel  == h.todo = Some("CANCELLED")
    IN [oid        |-> <<"parsed", i>>,
        heading    |-> IF known \/ cancel \/ h.todo = None THEN heading_of(chunk[1])
                       ELSE h.todo[1] \o " " \o heading_of(chunk[1]),
        todo       |-> IF known \/ cancel THEN h.todo ELSE None,
        tags       |-> IF last.tags = None THEN Some(<<>>) ELSE last.tags,
        properties |-> Some(p.properties),
        body       |-> Some(p.body),
        timestamp  |-> IF p.timestamps = <<>> THEN None
                       ELSE Some(strptime_minutes(p.timestamps[1].minutes)),
        clocks     |-> IF p.clocks = <<>> THEN None
                       ELSE Some([c \in DOMAIN p.clocks |->
                                OrgClock(strptime_minutes(p.clocks[c].start),
                                         Some(strptime_minutes(p.clocks[c].end[1])))]),
        level      |-> h.level]

\* OrgFile.from_file, lines 140-183.
from_file(text) ==
    LET cs   == chunks(split_lines(text, <<>>), <<<<>>>>)
        root == parse_lines(cs[1])
    IN [root     |-> [oid |-> <<"root", 0>>, heading |-> "", todo |-> None,
                      tags |-> Some(<<>>), properties |-> Some(root.properties),
                      body |-> Some(root.body), timestamp |-> None, clocks |-> None,
                      level |-> 0],
        children |-> [i \in 1..(Len(cs) - 1) |-> parse_node(i, cs[i + 1])]]

---------------------------------------------------------------------------
\* The world a run starts in: the command line, the files on disk and the
\* answers of the authentication and calendar services.

Headings == {"A", "B"}

\* The root OrgFile.from_file builds for a file with no preamble.
EmptyRoot ==
    [oid |-> <<"root", 0>>, heading |-> "", todo |-> None, tags |-> Some(<<>>),
     properties |-> Some(<<>>), body |-> Some(<<>>), timestamp |-> None,
     clocks |-> None, level |-> 0]

\* The i-th entry OrgFile.from_file yields (lines 146-172): clocks is None or a
\* non-empty list, todo is None or a keyword.
ParsedEntry(i, p) ==
    [oid |-> <<"file", i>>, heading |-> p.heading, todo |-> p.todo,
     tags |-> Some(<<>>), properties |-> Some(<<>>), body |-> Some(<<"notes">>),
     timestamp |-> p.timestamp,
     clocks |-> IF p.clocks THEN Some(<<OrgClock(60 * i, Some(60 * i + 60))>>) ELSE None,
     level |-> 1]

ParsedFile(ps) ==
    [root |-> EmptyRoot, children |-> [i \in DOMAIN ps |-> ParsedEntry(i, ps[i])]]

\* The j-th appointment of the calendar service's answer.
Appointment(j, a) ==
    [id |-> j, subject |-> a.subject, bodyPreview |-> a.bodyPreview, start |-> a.start]

Response(as) == [j \in DOMAIN as |-> Appointment(j, as[j])]

\* Entries that differ in heading, status keyword and clocks.
ClockProfiles ==
    [heading : Headings, todo : {None, Some("TODO")}, timestamp : {Some(60)},
     clocks : BOOLEAN]

\* Entries of one heading that differ in status keyword and timestamp.
StatusProfiles ==
    [heading : {"A"}, todo : {None, Some("TODO"), Some("DONE"), Some("CANCELLED")},
     timestamp : {None, Some(60), Some(120), Some(180)}, clocks : {FALSE}]

PlainProfiles ==
    [heading : Headings, todo : {None}, timestamp : {Some(60)}, clocks : {FALSE}]

PlainAppointments == [subject : Headings, bodyPreview : {<<>>}, start : {120}]

\* Appointments some of which the skip pattern matches.
FilterAppointments ==
    [subject : Headings \cup {"Canceled: A"},
     bodyPreview : {<<>>, <<"Agenda">>, <<"out of office">>}, start : {120}]

DefaultEnv ==
    [argc |-> 2, config |-> "ok", cache_file |-> FALSE, cache_has_account |-> FALSE,
     silent |-> "none", interactive |-> "issued", status_code |-> 200,
     value |-> <<>>, target |-> None]

\* Worlds in which the run ends before it asks for a token; what the run never
\* reads is left at its default.
EarlyWorlds ==
    {[DefaultEnv EXCEPT !.argc = n] : n \in {1, 3}}
    \cup {[DefaultEnv EXCEPT !.config = c] : c \in {"nodir", "nofile", "invalid", "noazure"}}
    \cup {[DefaultEnv EXCEPT !.cache_file = TRUE, !.cache_has_account = a, !.silent = s] :
             a \in BOOLEAN, s \in {"none", "cached", "refreshed"}}

\* A world in which the run asks for a token: the sign-in or the calendar
\* request may fail and the target file may be absent.
FetchWorld(profiles, appointments) ==
    \E k \in 0..MaxExisting, n \in 0..MaxFetched :
        \E ps \in [1..k -> profiles], as \in [1..n -> appointments] :
            \E t \in {None, Some(ParsedFile(ps))} :
                \/ env = [DefaultEnv EXCEPT !.value = Response(as), !.target = t]
                \/ \E c \in {401, 500} :
                       env = [DefaultEnv EXCEPT !.status_code = c, !.target = t]
                \/ env = [DefaultEnv EXCEPT !.interactive = "error", !.target = t]

\* A world in which the run reaches the merge: a target file of entries drawn
\* from profiles and an answer of appointments drawn from appointments.
MergeWorld(profiles, appointments) ==
    \E k \in 0..MaxExisting, n \in 0..MaxFetched :
        \E ps \in [1..k -> profiles], as \in [1..n -> appointments] :
            env = [DefaultEnv EXCEPT !.value = Response(as), !.target = Some(ParsedFile(ps))]

Init ==
    /\ pc = "main"
    /\ \/ env \in EarlyWorlds
       \/ FetchWorld(PlainProfiles, FilterAppointments)
       \/ MergeWorld(ClockProfiles, PlainAppointments)
       \/ MergeWorld(StatusProfiles, PlainAppointments)
    /\ error = ""
    /\ token_cache = [loaded |-> FALSE, has_state_changed |-> FALSE]
    /\ atexit_registered = FALSE
    /\ calls = [graph |-> 0, silent |-> 0, interactive |-> 0, http |-> 0]
    /\ calendar = <<>>
    /\ orgfile = [root |-> EmptyRoot, children |-> <<>>]
    /\ disk = [target |-> None, token_cache |-> FALSE]
    /\ stdout = <<>>

---------------------------------------------------------------------------
\* src/graph.py

\* Graph.get_token: [token, silent, interactive, changed]. The accounts come from
\* the token cache, which holds some only when it was loaded from a cache file.
get_token(cache) ==
    LET accounts    == cache.loaded /\ env.cache_has_account
        silent      == IF accounts THEN env.silent ELSE "none"
        interactive == silent = "none"
        result      == IF interactive THEN env.interactive ELSE silent
    IN [token       |-> IF result = "error" THEN None ELSE Some(result),
        silent      |-> IF accounts THEN 1 ELSE 0,
        interactive |-> IF interactive THEN 1 ELSE 0,
        changed     |-> result \in {"refreshed", "issued"}]

---------------------------------------------------------------------------
\* The run of main().

\* LoadConfig without the config_file.exists() test of line 121.
LoadConfig_dir_only ==
    /\ pc = "main"
    /\ IF env.argc # 2
       THEN pc' = "returned" /\ stdout' = Append(stdout, "Usage")
       ELSE IF env.config = "nodir"
       THEN pc' = "returned" /\ stdout' = Append(stdout, "Config file not present")
       ELSE IF env.config = "invalid"
       THEN pc' = "returned" /\ stdout' = Append(stdout, "YAMLError")
       ELSE pc' = "config_loaded" /\ UNCHANGED stdout
    /\ UNCHANGED <<env, error, token_cache, atexit_registered, calls, calendar, orgfile, disk>>

\* main, lines 113-130: the argument count and the configuration file.
LoadConfig ==
    /\ pc = "main"
    /\ IF env.argc # 2
       THEN pc' = "returned" /\ stdout' = Append(stdout, "Usage")
       ELSE IF env.config \in {"nodir", "nofile"}
       THEN pc' = "returned" /\ stdout' = Append(stdout, "Config file not present")
       ELSE IF env.config = "invalid"
       THEN pc' = "returned" /\ stdout' = Append(stdout, "YAMLError")
       ELSE pc' = "config_loaded" /\ UNCHANGED stdout
    /\ UNCHANGED <<env, error, token_cache, atexit_registered, calls, calendar, orgfile, disk>>

\* GetCalendar with a failed request read as an empty answer ({'value': []}).
GetCalendar_failure_is_empty ==
    /\ pc = "config_loaded"
    /\ IF env.config = "noazure"
       THEN /\ pc' = "raised" /\ error' = "KeyError"
            /\ UNCHANGED <<token_cache, calls, calendar, stdout>>
       ELSE IF env.cache_file
       THEN /\ token_cache' = [token_cache EXCEPT !.loaded = TRUE]
            /\ pc' = "raised" /\ error' = "NameError"
            /\ UNCHANGED <<calls, calendar, stdout>>
       ELSE LET t == get_token(token_cache) IN
            /\ token_cache' = [token_cache EXCEPT !.has_state_changed = @ \/ t.changed]
            /\ IF t.token = None
               THEN /\ calls' = [calls EXCEPT !.graph = @ + 1, !.silent = @ + t.silent,
                                              !.interactive = @ + t.interactive]
                    /\ stdout' = Append(stdout, "Token acquisition failed")
                    /\ pc' = "raised" /\ error' = "TypeError"
                    /\ UNCHANGED calendar
               ELSE /\ calls' = [calls EXCEPT !.graph = @ + 1, !.silent = @ + t.silent,
                                              !.interactive = @ + t.interactive,
                                              !.http = @ + 1]
                    /\ IF env.status_code # 200
                       THEN /\ stdout' = Append(stdout, "response text")
                            /\ calendar' = <<>>
                            /\ pc' = "fetched"
                            /\ UNCHANGED error
                       ELSE LET st == get_calendar_loop(env.value,
                                          [entries |-> <<>>, stdout |-> stdout]) IN
                            /\ calendar' = st.entries
                            /\ stdout' = st.stdout
                            /\ pc' = "fetched"
                            /\ UNCHANGED error
    /\ UNCHANGED <<env, atexit_registered, orgfile, disk>>

\* main, line 132: get_calendar(config["azure"]), with Graph.get_calendar_entries.
GetCalendar ==
    /\ pc = "config_loaded"
    /\ IF env.config = "noazure"
       THEN /\ pc' = "raised" /\ error' = "KeyError"
            /\ UNCHANGED <<token_cache, calls, calendar, stdout>>
       ELSE IF env.cache_file
       THEN \* deserialize, then atexit.register: main.py does not import atexit
            /\ token_cache' = [token_cache EXCEPT !.loaded = TRUE]
            /\ pc' = "raised" /\ error' = "NameError"
            /\ UNCHANGED <<calls, calendar, stdout>>
       ELSE LET t == get_token(token_cache) IN
            /\ token_cache' = [token_cache EXCEPT !.has_state_changed = @ \/ t.changed]
            /\ IF t.token = None
               THEN \* None["token"], before requests.get is called
                    /\ calls' = [calls EXCEPT !.graph = @ + 1, !.silent = @ + t.silent,
                                              !.interactive = @ + t.interactive]
                    /\ stdout' = Append(stdout, "Token acquisition failed")
                    /\ pc' = "raised" /\ error' = "TypeError"
                    /\ UNCHANGED calendar
               ELSE /\ calls' = [calls EXCEPT !.graph = @ + 1, !.silent = @ + t.silent,
                                              !.interactive = @ + t.interactive,
                                              !.http = @ + 1]
                    /\ IF env.status_code # 200
                       THEN \* get_calendar_entries returns None; None.get('value')
                            /\ stdout' = Append(stdout, "response text")
                            /\ pc' = "raised" /\ error' = "AttributeError"
                            /\ UNCHANGED calendar
                       ELSE LET st == get_calendar_loop(env.value,
                                          [entries |-> <<>>, stdout |-> stdout]) IN
                            /\ calendar' = st.entries
                            /\ stdout' = st.stdout
                            /\ pc' = "fetched"
                            /\ UNCHANGED error
    /\ UNCHANGED <<env, atexit_registered, orgfile, disk>>

\* main, line 134: OrgFile.from_file(org_file); orgparse's load opens the file.
FromFile ==
    /\ pc = "fetched"
    /\ IF env.target = None
       THEN pc' = "raised" /\ error' = "FileNotFoundError" /\ UNCHANGED orgfile
       ELSE pc' = "parsed" /\ orgfile' = env.target[1] /\ UNCHANGED error
    /\ UNCHANGED <<env, token_cache, atexit_registered, calls, calendar, disk, stdout>>

\* main, lines 136-167.
Merge ==
    /\ pc = "parsed"
    /\ LET m == merge(orgfile.children, calendar) IN
       /\ orgfile' = [orgfile EXCEPT !.children = m.children]
       /\ error' = m.error
       /\ stdout' = stdout \o m.stdout
       /\ pc' = IF m.error = "" THEN "merged" ELSE "raised"
    /\ UNCHANGED <<env, token_cache, atexit_registered, calls, calendar, disk>>

\* main, lines 168-169.
ToFile ==
    /\ pc = "merged"
    /\ disk' = [disk EXCEPT !.target = Some(to_file(orgfile))]
    /\ pc' = "returned"
    /\ UNCHANGED <<env, error, token_cache, atexit_registered, calls, calendar, orgfile, stdout>>

\* Interpreter exit: the registered atexit callbacks run.
AtExit ==
    /\ pc \in {"returned", "raised"}
    /\ pc' = "exited"
    /\ disk' = IF atexit_registered /\ token_cache.has_state_changed
               THEN [disk EXCEPT !.token_cache = TRUE]
               ELSE disk
    /\ UNCHANGED <<env, error, token_cache, atexit_registered, calls, calendar, orgfile, stdout>>

Next == LoadConfig \/ GetCalendar \/ FromFile \/ Merge \/ ToFile \/ AtExit

Spec == Init /\ [][Next]_vars

\* The merge of main applied once more to its own result and the same fetched
\* dict (no file is written or read in between).
SecondMerge ==
    /\ pc = "merged"
    /\ LET m == merge(orgfile.children, calendar) IN
       /\ orgfile' = [orgfile EXCEPT !.children = m.children]
       /\ error' = m.error
       /\ stdout' = stdout \o m.stdout
       /\ pc' = "merged_again"
    /\ UNCHANGED <<env, token_cache, atexit_registered, calls, calendar, disk>>

\* The file the run wrote is read back: OrgFile.from_file, as line 134 of the
\* next run does.
ReadBack ==
    /\ pc = "returned" /\ disk.target # None
    /\ orgfile' = from_file(disk.target[1])
    /\ pc' = "read_back"
    /\ UNCHANGED <<env, error, token_cache, atexit_registered, calls, calendar, disk, stdout>>

NextReadBack == Next \/ ReadBack

SpecReadBack == Init /\ [][NextReadBack]_vars

NextTwice == Next \/ SecondMerge

SpecTwice == Init /\ [][NextTwice]_vars

---------------------------------------------------------------------------
\* Vocabulary of the properties.

\* The entries OrgFile.from_file yielded, in file order.
Existing == IF env.target = None THEN <<>> ELSE env.target[1].children

\* The children of the document after the merge.
Output == orgfile.children

\* The appointments that passed the skip filter, by index in the answer.
Passed ==
    {j \in DOMAIN env.value :
        ~(re_search(<<env.value[j].subject>>) \/ re_search(env.value[j].bodyPreview))}

PassedSubjects == {env.value[j].subject : j \in Passed}

\* The first entry of the file with the heading of entry i.
FirstWithHeading(h) ==
    CHOOSE i \in DOMAIN Existing :
        /\ Existing[i].heading = h
        /\ \A k \in DOMAIN Existing : Existing[k].heading = h => i <= k

IsFirst(i) == FirstWithHeading(Existing[i].heading) = i

ExistingHeadings == {Existing[i].heading : i \in DOMAIN Existing}

Unmatched(i) == Existing[i].heading \notin PassedSubjects

\* The first and the last appointment of subject s that passed the skip filter.
FirstWithSubject(s) ==
    CHOOSE j \in Passed :
        env.value[j].subject = s /\ \A k \in Passed : env.value[k].subject = s => j <= k

LastWithSubject(s) ==
    CHOOSE j \in Passed :
        env.value[j].subject = s /\ \A k \in Passed : env.value[k].subject = s => k <= j

\* The run came as far as line 35 of get_calendar.
CacheSetupReached == env.argc = 2 /\ env.config = "ok" /\ pc \notin {"main", "config_loaded"}

\* The sign-in was asked for and gave no access token.
TokenFailed == calls.interactive >= 1 /\ env.interactive = "error"

\* The calendar request was sent and its status is not 200.
RequestFailed == calls.http >= 1 /\ env.status_code # 200

FetchSucceeded == calls.http >= 1 /\ env.status_code = 200

\* One argument, and the configuration directory or file is missing or the file
\* is not valid YAML.
ConfigUnusable == env.argc = 2 /\ env.config \in {"nodir", "nofile", "invalid"}

InOutput(oid) == \E p \in DOMAIN Output : Output[p].oid = oid

\* Positions of the output whose entry came from the fetched list.
FromFetched(p) == Output[p].heading \in PassedSubjects

\* The increasing sequence of the elements of a finite set of integers.
RECURSIVE Sorted(_)
Sorted(S) ==
    IF S = {} THEN <<>>
    ELSE LET m == CHOOSE x \in S : \A y \in S : x <= y IN <<m>> \o Sorted(S \ {m})

\* The entry the output is to hold for appointment j.
EntryFor(j, o) ==
    IF env.value[j].subject \in ExistingHeadings
    THEN o.oid = Existing[FirstWithHeading(env.value[j].subject)].oid
    ELSE o.oid = <<"cal", j>>

ClockList(opt) == IF opt = None THEN <<>> ELSE opt[1]

\* The clocks of the entries of the file with heading h, in file order.
RECURSIVE ClocksOf(_, _)
ClocksOf(h, entries) ==
    IF entries = <<>> THEN <<>>
    ELSE (IF Head(entries).heading = h THEN ClockList(Head(entries).clocks) ELSE <<>>)
         \o ClocksOf(h, Tail(entries))

---------------------------------------------------------------------------
\* C1 as stated: after the merge the output holds, for every appointment that
\* passed the skip filter, one entry (the existing entry of that heading, else
\* the fetched entry itself), and these entries stand in the order of the
\* answer, also when appointments share a subject.
C1_EveryFetchedAppointmentHasAnEntry ==
    pc = "merged" =>
        LET js == Sorted(Passed) IN
        \E f \in [DOMAIN js -> DOMAIN Output] :
            /\ \A r \in DOMAIN js : EntryFor(js[r], Output[f[r]])
            /\ \A r, t \in DOMAIN js : r < t => f[r] < f[t]

\* C1 amended: the output holds exactly one entry for every subject among the
\* appointments that passed the skip filter: the existing entry of that heading
\* if there is one, else the entry built from the last appointment of that
\* subject; these entries stand in the order in which the subjects first occur
\* in the answer.
C1_EveryFetchedSubjectHasAnEntry ==
    pc = "merged" =>
        LET js == Sorted({FirstWithSubject(s) : s \in PassedSubjects}) IN
        /\ \A s \in PassedSubjects :
               Cardinality({p \in DOMAIN Output : Output[p].heading = s}) = 1
        /\ \E f \in [DOMAIN js -> DOMAIN Output] :
               /\ \A r \in DOMAIN js :
                      EntryFor(LastWithSubject(env.value[js[r]].subject), Output[f[r]])
               /\ \A r, t \in DOMAIN js : r < t => f[r] < f[t]

C1_Witness ==
    /\ pc = "merged"
    /\ \E j, k \in Passed, p \in DOMAIN Output :
          /\ j < k /\ env.value[j].subject = env.value[k].subject
          /\ Output[p].oid = <<"cal", k>>

\* C2 as stated: an existing entry whose heading no fetched entry has is in the
\* output iff it carries a status keyword, and stands before every entry that
\* came from the fetched list.
C2_UnmatchedKeptIffStatus ==
    pc = "merged" =>
        \A i \in DOMAIN Existing :
            Unmatched(i) =>
                /\ InOutput(Existing[i].oid) <=> TruthyStr(Existing[i].todo)
                /\ \A p, q \in DOMAIN Output :
                       Output[p].oid = Existing[i].oid /\ FromFetched(q) => p < q

\* C2 amended: the statement holds of the first entry of each heading; a later
\* entry of a heading that occurs earlier in the file is never in the output.
C2_FirstUnmatchedKeptIffStatus ==
    pc = "merged" =>
        \A i \in DOMAIN Existing :
            Unmatched(i) =>
                /\ IsFirst(i) => (InOutput(Existing[i].oid) <=> TruthyStr(Existing[i].todo))
                /\ ~IsFirst(i) => ~InOutput(Existing[i].oid)
                /\ \A p, q \in DOMAIN Output :
                       Output[p].oid = Existing[i].oid /\ FromFetched(q) => p < q

C2_Witness ==
    /\ pc = "merged"
    /\ \E i, k \in DOMAIN Existing, p, q \in DOMAIN Output :
          /\ Unmatched(i) /\ IsFirst(i) /\ Output[p].oid = Existing[i].oid
          /\ Unmatched(k) /\ ~IsFirst(k)
          /\ FromFetched(q)

\* C3: a matched existing entry takes the fetched timestamp exactly when both
\* timestamps are present and its own is strictly earlier, and then loses its
\* status keyword exactly when that was DONE or CANCELLED; otherwise timestamp
\* and status keyword stay as they were.
C3_UpdateAdoptsLaterTimestamp ==
    pc = "merged" =>
        \A i \in DOMAIN Existing :
            IsFirst(i) /\ ~Unmatched(i) =>
                LET old   == Existing[i]
                    new   == Get(calendar, old.heading)
                    adopt == /\ old.timestamp # None /\ new.timestamp # None
                             /\ old.timestamp[1] < new.timestamp[1]
                IN \E p \in DOMAIN Output :
                       /\ Output[p].oid = old.oid
                       /\ Output[p].timestamp = IF adopt THEN new.timestamp ELSE old.timestamp
                       /\ IF adopt /\ old.todo \in {Some("DONE"), Some("CANCELLED")}
                          THEN ~TruthyStr(Output[p].todo)
                          ELSE Output[p].todo = old.todo

C3_Witness ==
    /\ pc = "merged"
    /\ \E i \in DOMAIN Existing, p \in DOMAIN Output :
          /\ IsFirst(i) /\ ~Unmatched(i) /\ Output[p].oid = Existing[i].oid
          /\ Existing[i].todo = Some("CANCELLED")
          /\ Existing[i].timestamp # None
          /\ Output[p].timestamp # Existing[i].timestamp
          /\ ~TruthyStr(Output[p].todo)

\* C4: a heading of the file whose entry survives the merge has exactly one
\* output entry, and its clocks are those of all the file's entries of that
\* heading, concatenated in file order.
C4_ClocksOfSurvivorsConcatenated ==
    pc = "merged" =>
        \A h \in ExistingHeadings :
            h \in PassedSubjects \/ TruthyStr(Existing[FirstWithHeading(h)].todo) =>
                /\ Cardinality({p \in DOMAIN Output : Output[p].heading = h}) = 1
                /\ \A p \in DOMAIN Output :
                       Output[p].heading = h =>
                           ClockList(Output[p].clocks) = ClocksOf(h, Existing)

C4_Witness ==
    /\ pc = "merged"
    /\ \E i, k \in DOMAIN Existing, p \in DOMAIN Output :
          /\ i < k /\ Existing[i].heading = Existing[k].heading
          /\ Existing[i].clocks # None /\ Existing[k].clocks # None
          /\ Output[p].heading = Existing[i].heading
          /\ Len(ClockList(Output[p].clocks)) = 2

\* C5: in a run that reaches the token-cache setup, the cache file is written
\* at process exit iff the cache's change flag was set during the run.
C5_CacheWrittenIffChanged ==
    pc = "exited" /\ CacheSetupReached =>
        (disk.token_cache <=> token_cache.has_state_changed)

\* C6: when no token is obtained or the calendar request does not succeed, the
\* run aborts and the target file is not written; without a token no request is
\* sent; no call is made twice.
C6_FailedFetchWritesNothing ==
    TokenFailed \/ RequestFailed =>
        /\ pc \in {"raised", "exited"}
        /\ disk.target = None
        /\ TokenFailed => calls.http = 0
        /\ calls.silent <= 1 /\ calls.interactive <= 1 /\ calls.http <= 1

C6_Witness ==
    /\ pc = "exited" /\ RequestFailed
    /\ env.target # None /\ env.target[1].children # <<>>

\* C7: with one argument and no usable configuration the run prints one
\* message and returns: no client, no token, no request, no file written.
C7_ConfigFailureHasNoEffect ==
    ConfigUnusable =>
        /\ pc \in {"main", "returned", "exited"}
        /\ error = ""
        /\ calls = [graph |-> 0, silent |-> 0, interactive |-> 0, http |-> 0]
        /\ disk = [target |-> None, token_cache |-> FALSE]
        /\ pc # "main" =>
              stdout \in {<<"Config file not present">>, <<"YAMLError">>}

C7_Witness == pc = "exited" /\ ConfigUnusable /\ env.config = "nofile"

\* C8: when the target file does not exist and configuration and fetch
\* succeed, the run ends with the fetched entries written to the target path.
C8_AbsentTargetIsCreated ==
    pc = "exited" /\ env.target = None /\ FetchSucceeded =>
        disk.target = Some(to_file([root |-> EmptyRoot, children |-> Values(calendar)]))

\* The fields of an entry a reader of the outline sees: heading, status keyword
\* (none for the empty one), tag set, property set, timestamp and clocks.
EntryFields(e) ==
    [heading    |-> e.heading,
     todo       |-> IF TruthyStr(e.todo) THEN e.todo ELSE None,
     tags       |-> IF e.tags = None THEN {} ELSE {e.tags[1][i] : i \in DOMAIN e.tags[1]},
     properties |-> IF e.properties = None THEN {}
                    ELSE {[key |-> upper(e.properties[1][i].key), val |-> e.properties[1][i].val] :
                              i \in DOMAIN e.properties[1]},
     timestamp  |-> e.timestamp,
     clocks     |-> ClockList(e.clocks)]

\* C9: the file to_file wrote for a document of N entries is read back by
\* from_file as N entries with the same heading, status keyword, tag set,
\* properties, timestamp and clocks, in the same order.
C9_WrittenFileReadsBackTheSame ==
    [][pc = "returned" /\ pc' = "read_back" =>
           /\ Len(orgfile'.children) = Len(orgfile.children)
           /\ \A i \in DOMAIN orgfile.children :
                  EntryFields(orgfile'.children[i]) = EntryFields(orgfile.children[i])]_vars

\* C10: merging the result of the merge again with the same fetched dict
\* leaves the children list as it is.
C10_SecondMergeChangesNothing ==
    [][pc = "merged" /\ pc' = "merged_again" => orgfile' = orgfile /\ error' = ""]_vars

C10_Witness ==
    /\ pc = "merged_again"
    /\ \E p, q \in DOMAIN Output : Output[p].oid[1] = "file" /\ Output[q].oid[1] = "cal"
    /\ \E i \in DOMAIN Existing : ~InOutput(Existing[i].oid)

====
